---- MODULE Spec2Model ----
(***************************************************************************)
(* mnist-bot (src/main.go): a pool of ticking bots, each tick spawning a   *)
(* sendData goroutine that posts one sample and records the outcome in the *)
(* shared metrics (metricsMutex) and the shared log (logMutex); main and   *)
(* the UI goroutine render the metrics and close quitChan to stop the run. *)
(*                                                                         *)
(* Goroutines are processes with a program counter; every step is one      *)
(* statement (or a run of statements without shared effect) of main.go.    *)
(* float64 values are kept exact: averageLatency is the pair               *)
(* [num, den] of the division sum / float64(len).                          *)
(***************************************************************************)
EXTENDS Integers, Sequences, FiniteSets, TLC

\* ------------------------------------------------------------------ bounds
\* the bots started (--bots), the sendData goroutines a run may start, and
\* the key presses termui may hold queued
NumBots == 1
MaxDispatch == 2
MaxEvents == 1
\* the sendData goroutines a run may start when a stop can be requested
MaxStopDispatch == 1
\* the logToWidget calls made by the callers of SpecLog
MaxAppends == 12
\* the records of a data file
MaxRows == 2

\* len(logEntries) > 10, main.go:205
MaxLogEntries == 10

\* latencies (ms) a response can take, and the HTTP statuses it can carry
Latencies == {1, 3}
Statuses == {200, 500}

VARIABLES
    dataFile,          \* main.go:48, the file from the reader's position on
    loadErr,           \* main.go:244, what loadMNISTData returned
    mnistSamples,      \* main.go:30
    totalRequests,     \* main.go:34
    successRequests,   \* main.go:35
    failedRequests,    \* main.go:36
    averageLatency,    \* main.go:37
    latencies,         \* main.go:38
    metricsMutex,      \* main.go:39, the goroutine holding it or Free
    logEntries,        \* main.go:42
    logMutex,          \* main.go:43, the goroutine holding it or Free
    quitChan,          \* main.go:253, "open" or "closed"
    stopChan,          \* main.go:254, the number of buffered signals (cap 1)
    uiEvents,          \* main.go:266, the events termui has queued
    wg,                \* main.go:259, the WaitGroup counter
    ticker,            \* main.go:183, per bot the ticks buffered in ticker.C (cap 1)
    table,             \* main.go:267, the rows the metrics table shows
    pc,                \* each goroutine's position
    logCall,           \* the argument and return position of a logToWidget call
    local,             \* sendData's locals: data, resp.StatusCode, latency
    spawned,           \* the number of sendData goroutines started so far
    panicked,          \* the panic that ended the process, or "none"
    logHistory,        \* history: every append to logEntries, with its caller
    committed,         \* history: the metrics at each moment metricsMutex was free
    atLock,            \* history: the metrics when metricsMutex was last taken
    updates,           \* history: per sendData, its metricsMutex sections
    outcome,           \* history: per sendData, how its request ended
    lateTicks          \* history: per bot, the ticks it handled after the close

vars == <<dataFile, loadErr, mnistSamples, totalRequests, successRequests, failedRequests,
          averageLatency, latencies, metricsMutex, logEntries, logMutex,
          quitChan, stopChan, uiEvents, wg, ticker, table, pc, logCall,
          local, spawned, panicked, logHistory, committed, atLock, updates,
          outcome, lateTicks>>

metricVars == <<totalRequests, successRequests, failedRequests,
                averageLatency, latencies>>
chanVars == <<quitChan, stopChan, uiEvents>>
loadVars == <<dataFile, loadErr, mnistSamples>>
miscVars == <<loadVars, ticker, lateTicks>>
histVars == <<committed, atLock, updates, outcome>>

\* ------------------------------------------------------------- goroutines
Main == <<"main", 0>>
UI == <<"ui", 0>>
Bot(i) == <<"bot", i>>
Send(d) == <<"send", d>>
Free == <<"free", 0>>

Bots == {Bot(i) : i \in 1..NumBots}
Sends == {Send(d) : d \in 1..MaxDispatch}
Procs == {Main, UI} \cup Bots \cup Sends

NoCall == [msg |-> "", ret |-> ""]
NoLocal == [data |-> <<>>, status |-> 0, latency |-> 0]

\* ------------------------------------------------------------ pure helpers
RECURSIVE SumSeq(_)
SumSeq(s) == IF s = <<>> THEN 0 ELSE Head(s) + SumSeq(Tail(s))

Zero == [num |-> 0, den |-> 1]

\* a faulty calculateAverageLatency: the latest latency instead of the mean
calculateAverageLatencyLast(lats) == [num |-> lats[Len(lats)], den |-> 1]

\* main.go:171-177, sum / float64(len(latencies)) kept as an exact fraction
calculateAverageLatency(lats) == [num |-> SumSeq(lats), den |-> Len(lats)]

\* fmt.Sprintf("%.2f", x): x rounded to hundredths
FormatFixed2(x) == (200 * x.num + x.den) \div (2 * x.den)

\* a faulty trim: the newest entry is dropped instead of the oldest
TrimLogNewest(entries) ==
    IF Len(entries) > MaxLogEntries
    THEN SubSeq(entries, 1, MaxLogEntries)
    ELSE entries

\* main.go:205-207
TrimLog(entries) ==
    IF Len(entries) > MaxLogEntries THEN Tail(entries) ELSE entries

\* json.Marshal rejects NaN and the infinities (main.go:105)
MarshalFails(data) == \E k \in 1..Len(data) : data[k] \in {"NaN", "+Inf", "-Inf"}

\* strconv.ParseFloat(value, 64) of main.go:75 returns an error: it accepts
\* decimal numbers, "NaN" and the infinities
ParseFloatFails(value) == value \notin {"0", "0.0", "255", "NaN", "+Inf", "-Inf"}

\* the float64 strconv.ParseFloat returns, written in its shortest form
ParseFloat(value) == IF value = "0.0" THEN "0" ELSE value

\* main.go:73-80, the sample of a record whose fields all parse
ParseRecord(record) == [k \in 1..Len(record) |-> ParseFloat(record[k])]

\* json.Decoder.Decode reads a whole value before storing anything and
\* rejects a token that is no JSON (NaN and the infinities are none)
JSONSyntaxError(rows) ==
    \E r \in 1..Len(rows) : \E k \in 1..Len(rows[r]) :
        rows[r][k] \notin {"0", "0.0", "255", "true"}

\* a value that is JSON but no number: Decode reports it after decoding
JSONTypeError(rows) ==
    \E r \in 1..Len(rows) : \E k \in 1..Len(rows[r]) : rows[r][k] = "true"

\* what Decode stores through &mnistSamples (main.go:58): every number, and
\* the zero value where the JSON value was no number
JSONDecoded(rows) ==
    [r \in 1..Len(rows) |->
        [k \in 1..Len(rows[r]) |->
            IF rows[r][k] = "true" THEN "0" ELSE ParseFloat(rows[r][k])]]

\* the data files of a run: up to MaxRows records, read as CSV or as JSON
\* (an array of arrays); a field is a number, NaN or the word true
Records == {<<"0.0">>, <<"0", "255">>, <<"0", "NaN">>, <<"0", "true">>}
RECURSIVE RowsOfLen(_)
RowsOfLen(n) ==
    IF n = 0 THEN {<<>>}
    ELSE {Append(rows, record) : rows \in RowsOfLen(n - 1), record \in Records}
Files == {[ext |-> ext, rows |-> rows, fields |-> 0] :
             ext \in {"csv", "json"},
             rows \in UNION {RowsOfLen(n) : n \in 0..MaxRows}}

\* the rows of main.go:213-219 and 288-294
Rows(total, success, avg, failed) ==
    [total |-> total, success |-> success, avg |-> FormatFixed2(avg), failed |-> failed]

Metrics == [total |-> totalRequests, success |-> successRequests,
            failed |-> failedRequests, avg |-> averageLatency, lats |-> latencies]

\* the process runs until a goroutine panics or main returns
Alive == panicked = "none" /\ pc[Main] # "exit"

\* ------------------------------------------------------------------- Init
\* the state of the package variables and of main's locals (main.go:29-44,
\* 253-259) with the data file and the store given, and each goroutine at
\* the position at gives it
StartWith(file, samples, at) ==
    /\ dataFile = file
    /\ loadErr = "none"
    /\ mnistSamples = samples
    /\ lateTicks = [i \in 1..NumBots |-> 0]
    /\ totalRequests = 0
    /\ successRequests = 0
    /\ failedRequests = 0
    /\ averageLatency = Zero
    /\ latencies = <<>>
    /\ metricsMutex = Free
    /\ logEntries = <<>>
    /\ logMutex = Free
    /\ quitChan = "open"
    /\ stopChan = 0
    /\ uiEvents = <<>>
    /\ wg = 0
    /\ ticker = [i \in 1..NumBots |-> 0]
    /\ table = Rows(0, 0, Zero, 0)
    /\ pc = at
    /\ logCall = [p \in Procs |-> NoCall]
    /\ local = [d \in 1..MaxDispatch |-> NoLocal]
    /\ spawned = 0
    /\ panicked = "none"
    /\ logHistory = <<>>
    /\ committed = {Metrics}
    /\ atLock = Metrics
    /\ updates = [d \in 1..MaxDispatch |-> 0]
    /\ outcome = [d \in 1..MaxDispatch |-> "none"]

\* the state after loadMNISTData has loaded a CSV file of two records, the
\* second one holding NaN
StartAt(at) ==
    StartWith([ext |-> "csv", rows |-> <<>>, fields |-> 2],
              << <<"0", "255">>, <<"0", "NaN">> >>, at)

Init == StartAt([p \in Procs |-> IF p = Main THEN "start" ELSE "unborn"])

Goto(p, label) == [pc EXCEPT ![p] = label]

\* a call of logToWidget(message) that returns to label ret
CallLog(p, message, ret) ==
    /\ pc' = Goto(p, "logToWidget")
    /\ logCall' = [logCall EXCEPT ![p] = [msg |-> message, ret |-> ret]]

\* ------------------------------------------------- logToWidget, main.go:201
\* main.go:202-204 logMutex.Lock(); logEntries = append(logEntries, message)
LogAppend(p) ==
    /\ Alive
    /\ pc[p] = "logToWidget"
    /\ logMutex = Free
    /\ logMutex' = p
    /\ logEntries' = Append(logEntries, logCall[p].msg)
    /\ logHistory' = Append(logHistory, [by |-> p, msg |-> logCall[p].msg])
    /\ pc' = Goto(p, "logTrim")
    /\ UNCHANGED <<miscVars, metricVars, metricsMutex, chanVars, wg, table,
                   logCall, local, spawned, panicked, histVars>>

\* a faulty logToWidget: it returns without logMutex.Unlock()
LogTrimKeepsLock(p) ==
    /\ Alive
    /\ pc[p] = "logTrim"
    /\ logEntries' = TrimLog(logEntries)
    /\ pc' = Goto(p, logCall[p].ret)
    /\ logCall' = [logCall EXCEPT ![p] = NoCall]
    /\ UNCHANGED <<miscVars, metricVars, metricsMutex, logMutex, chanVars, wg,
                   table, local, spawned, panicked, logHistory, histVars>>

\* main.go:205-207 and the deferred logMutex.Unlock() of main.go:203
LogTrim(p) ==
    /\ Alive
    /\ pc[p] = "logTrim"
    /\ logEntries' = TrimLog(logEntries)
    /\ logMutex' = Free
    /\ pc' = Goto(p, logCall[p].ret)
    /\ logCall' = [logCall EXCEPT ![p] = NoCall]
    /\ UNCHANGED <<miscVars, metricVars, metricsMutex, chanVars, wg, table,
                   local, spawned, panicked, logHistory, histVars>>

\* --------------------------------------------- loadMNISTData, main.go:47
\* logger.Fatalf of main.go:245: the process exits
LoadFailed(err) ==
    /\ loadErr' = err
    /\ pc' = Goto(Main, "exit")

\* main.go:55-60, the file name ends in .json: decoder.Decode(&mnistSamples)
LoadJSON ==
    /\ Alive
    /\ pc[Main] = "load"
    /\ dataFile.ext = "json"
    /\ dataFile' = [dataFile EXCEPT !.rows = <<>>]
    /\ IF JSONSyntaxError(dataFile.rows)
       THEN /\ LoadFailed("failed to decode JSON")
            /\ UNCHANGED mnistSamples
       ELSE /\ mnistSamples' = JSONDecoded(dataFile.rows)
            /\ IF JSONTypeError(dataFile.rows)
               THEN LoadFailed("failed to decode JSON")
               ELSE pc' = Goto(Main, "start") /\ UNCHANGED loadErr
    /\ UNCHANGED <<ticker, lateTicks, metricVars, metricsMutex, logEntries,
                   logMutex, chanVars, wg, table, logCall, local, spawned,
                   panicked, logHistory, histVars>>

\* main.go:64-82, one iteration of the CSV loop: reader.Read() returns a
\* record, or an error when its number of fields differs from the first
\* record's (csv.Reader.FieldsPerRecord is 0); the record's fields are
\* parsed and the sample is appended to mnistSamples
LoadCSVRecord ==
    /\ Alive
    /\ pc[Main] = "load"
    /\ dataFile.ext = "csv"
    /\ dataFile.rows # <<>>
    /\ LET record == Head(dataFile.rows) IN
         /\ dataFile' = [dataFile EXCEPT !.rows = Tail(@), !.fields = Len(record)]
         /\ IF dataFile.fields # 0 /\ Len(record) # dataFile.fields
            THEN /\ LoadFailed("failed to read CSV")
                 /\ UNCHANGED mnistSamples
            ELSE IF \E k \in 1..Len(record) : ParseFloatFails(record[k])
            THEN /\ LoadFailed("failed to parse pixel value")
                 /\ UNCHANGED mnistSamples
            ELSE /\ mnistSamples' = Append(mnistSamples, ParseRecord(record))
                 /\ UNCHANGED <<loadErr, pc>>
    /\ UNCHANGED <<ticker, lateTicks, metricVars, metricsMutex, logEntries,
                   logMutex, chanVars, wg, table, logCall, local, spawned,
                   panicked, logHistory, histVars>>

\* main.go:65-68 and 85-86, reader.Read() returns io.EOF: the load succeeds
LoadCSVEnd ==
    /\ Alive
    /\ pc[Main] = "load"
    /\ dataFile.ext = "csv"
    /\ dataFile.rows = <<>>
    /\ pc' = Goto(Main, "start")
    /\ UNCHANGED <<miscVars, metricVars, metricsMutex, logEntries, logMutex,
                   chanVars, wg, table, logCall, local, spawned, panicked,
                   logHistory, histVars>>

\* ------------------------------------------------------ main, main.go:237
\* main.go:257
MainStart ==
    /\ Alive
    /\ pc[Main] = "start"
    /\ CallLog(Main, "Starting MNIST bots", "spawn")
    /\ UNCHANGED <<miscVars, metricVars, metricsMutex, logEntries, logMutex,
                   chanVars, wg, table, local, spawned, panicked, logHistory,
                   histVars>>

\* main.go:260-263, one iteration of the loop: wg.Add(1); go startBot(...)
MainSpawnBot ==
    /\ Alive
    /\ pc[Main] = "spawn"
    /\ \E i \in 1..NumBots :
         /\ pc[Bot(i)] = "unborn"
         /\ \A j \in 1..(i - 1) : pc[Bot(j)] # "unborn"
         /\ wg' = wg + 1
         /\ pc' = [pc EXCEPT ![Bot(i)] = "select",
                             ![Main] = IF i = NumBots THEN "readTotal" ELSE "spawn"]
    /\ UNCHANGED <<miscVars, metricVars, metricsMutex, logEntries, logMutex,
                   chanVars, table, logCall, local, spawned, panicked,
                   logHistory, histVars>>

\* main.go:267 renderMetricsTable(): main.go:215, read without metricsMutex
MainReadTotal ==
    /\ Alive
    /\ pc[Main] = "readTotal"
    /\ table' = [table EXCEPT !.total = totalRequests]
    /\ pc' = Goto(Main, "readSuccess")
    /\ UNCHANGED <<miscVars, metricVars, metricsMutex, logEntries, logMutex,
                   chanVars, wg, logCall, local, spawned, panicked, logHistory,
                   histVars>>

\* main.go:216
MainReadSuccess ==
    /\ Alive
    /\ pc[Main] = "readSuccess"
    /\ table' = [table EXCEPT !.success = successRequests]
    /\ pc' = Goto(Main, "readAverage")
    /\ UNCHANGED <<miscVars, metricVars, metricsMutex, logEntries, logMutex,
                   chanVars, wg, logCall, local, spawned, panicked, logHistory,
                   histVars>>

\* main.go:217
MainReadAverage ==
    /\ Alive
    /\ pc[Main] = "readAverage"
    /\ table' = [table EXCEPT !.avg = FormatFixed2(averageLatency)]
    /\ pc' = Goto(Main, "readFailed")
    /\ UNCHANGED <<miscVars, metricVars, metricsMutex, logEntries, logMutex,
                   chanVars, wg, logCall, local, spawned, panicked, logHistory,
                   histVars>>

\* main.go:218, then main.go:269-275: the log widget, the first render, go func()
MainReadFailed ==
    /\ Alive
    /\ pc[Main] = "readFailed"
    /\ table' = [table EXCEPT !.failed = failedRequests]
    /\ pc' = [pc EXCEPT ![Main] = "select", ![UI] = "select"]
    /\ UNCHANGED <<miscVars, metricVars, metricsMutex, logEntries, logMutex,
                   chanVars, wg, logCall, local, spawned, panicked, logHistory,
                   histVars>>

\* main.go:310-311, case <-stopChan
MainStopSignal ==
    /\ Alive
    /\ pc[Main] = "select"
    /\ stopChan > 0
    /\ stopChan' = stopChan - 1
    /\ CallLog(Main, "Received stop signal (Ctrl+C)", "close")
    /\ UNCHANGED <<miscVars, metricVars, metricsMutex, logEntries, logMutex,
                   quitChan, uiEvents, wg, table, local, spawned, panicked,
                   logHistory, histVars>>

\* close(quitChan): closing a closed channel panics
CloseQuitChan(p, next) ==
    /\ IF quitChan = "closed"
       THEN panicked' = "close of closed channel" /\ UNCHANGED quitChan
       ELSE quitChan' = "closed" /\ UNCHANGED panicked
    /\ pc' = Goto(p, next)

\* main.go:312
MainClose ==
    /\ Alive
    /\ pc[Main] = "close"
    /\ CloseQuitChan(Main, "wait")
    /\ UNCHANGED <<miscVars, metricVars, metricsMutex, logEntries, logMutex,
                   stopChan, uiEvents, wg, table, logCall, local, spawned,
                   logHistory, histVars>>

\* main.go:313, case <-quitChan
MainQuitObserved ==
    /\ Alive
    /\ pc[Main] = "select"
    /\ quitChan = "closed"
    /\ pc' = Goto(Main, "wait")
    /\ UNCHANGED <<miscVars, metricVars, metricsMutex, logEntries, logMutex,
                   chanVars, wg, table, logCall, local, spawned, panicked,
                   logHistory, histVars>>

\* main.go:317-318, wg.Wait() returns when the counter is zero
MainWait ==
    /\ Alive
    /\ pc[Main] = "wait"
    /\ wg = 0
    /\ CallLog(Main, "All bots stopped.", "final")
    /\ UNCHANGED <<miscVars, metricVars, metricsMutex, logEntries, logMutex,
                   chanVars, wg, table, local, spawned, panicked, logHistory,
                   histVars>>

\* main.go:319-321, the last render, the sleep and the return of main
MainExit ==
    /\ Alive
    /\ pc[Main] = "final"
    /\ pc' = Goto(Main, "exit")
    /\ UNCHANGED <<miscVars, metricVars, metricsMutex, logEntries, logMutex,
                   chanVars, wg, table, logCall, local, spawned, panicked,
                   logHistory, histVars>>

\* ------------------------------------------- the environment of the process
\* main has left the select of main.go:309, the only receive from stopChan
MainPastSelect ==
    \/ pc[Main] \in {"close", "wait", "final", "exit"}
    \/ logCall[Main].ret \in {"close", "final"}

\* SIGINT or SIGTERM: signal.Notify sends without blocking into the
\* one-slot stopChan of main.go:254-255 and drops the signal when it is full;
\* a signal that main can no longer receive changes nothing and is left out
Signal ==
    /\ Alive
    /\ ~MainPastSelect
    /\ stopChan = 0
    /\ stopChan' = 1
    /\ UNCHANGED <<miscVars, metricVars, metricsMutex, logEntries, logMutex,
                   quitChan, uiEvents, wg, table, pc, logCall, local, spawned,
                   panicked, logHistory, histVars>>

\* the runtime timer of a running bot's ticker: time.Ticker drops a tick when
\* the one-slot ticker.C is full, and sends none after ticker.Stop(); cap
\* bounds the sendData goroutines of a run
Tick(i, cap) ==
    /\ Alive
    /\ pc[Bot(i)] \notin {"unborn", "done"}
    /\ spawned < cap
    /\ ticker[i] = 0
    /\ ticker' = [ticker EXCEPT ![i] = 1]
    /\ UNCHANGED <<loadVars, lateTicks, metricVars, metricsMutex, logEntries, logMutex,
                   chanVars, wg, table, pc, logCall, local, spawned, panicked,
                   logHistory, histVars>>

\* a key press queued by termui.PollEvents (main.go:266) while the UI
\* goroutine can still receive it
KeyPress ==
    /\ Alive
    /\ pc[UI] \notin {"unborn", "close", "done"} /\ logCall[UI].ret # "close"
    /\ Len(uiEvents) < MaxEvents
    /\ \E key \in {"q", "x"} : uiEvents' = Append(uiEvents, key)
    /\ UNCHANGED <<miscVars, metricVars, metricsMutex, logEntries, logMutex,
                   quitChan, stopChan, wg, table, pc, logCall, local, spawned,
                   panicked, logHistory, histVars>>

\* ------------------------------------- the UI goroutine, main.go:275-306
\* main.go:278-279, case <-quitChan
UIQuit ==
    /\ Alive
    /\ pc[UI] = "select"
    /\ quitChan = "closed"
    /\ pc' = Goto(UI, "done")
    /\ UNCHANGED <<miscVars, metricVars, metricsMutex, logEntries, logMutex,
                   chanVars, wg, table, logCall, local, spawned, panicked,
                   logHistory, histVars>>

\* main.go:280-285, case e := <-uiEvents
UIEvent ==
    /\ Alive
    /\ pc[UI] = "select"
    /\ uiEvents # <<>>
    /\ uiEvents' = Tail(uiEvents)
    /\ IF Head(uiEvents) = "q"
       THEN CallLog(UI, "Received 'q' key", "close")
       ELSE UNCHANGED <<pc, logCall>>
    /\ UNCHANGED <<miscVars, metricVars, metricsMutex, logEntries, logMutex,
                   quitChan, stopChan, wg, table, local, spawned, panicked,
                   logHistory, histVars>>

\* main.go:283-284
UIClose ==
    /\ Alive
    /\ pc[UI] = "close"
    /\ CloseQuitChan(UI, "done")
    /\ UNCHANGED <<miscVars, metricVars, metricsMutex, logEntries, logMutex,
                   stopChan, uiEvents, wg, table, logCall, local, spawned,
                   logHistory, histVars>>

\* main.go:286-295, default (taken when no other case is ready): the rows of
\* the table are read between metricsMutex.Lock() and metricsMutex.Unlock()
UIRefreshMetrics ==
    /\ Alive
    /\ pc[UI] = "select"
    /\ quitChan = "open"
    /\ uiEvents = <<>>
    /\ metricsMutex = Free
    /\ table' = Rows(totalRequests, successRequests, averageLatency, failedRequests)
    /\ pc' = Goto(UI, "logRows")
    /\ UNCHANGED <<miscVars, metricVars, metricsMutex, logEntries, logMutex,
                   chanVars, wg, logCall, local, spawned, panicked, logHistory,
                   histVars>>

\* main.go:297-303, the rows of the log widget are read between
\* logMutex.Lock() and logMutex.Unlock(); then the render and the sleep
UIRefreshLog ==
    /\ Alive
    /\ pc[UI] = "logRows"
    /\ logMutex = Free
    /\ pc' = Goto(UI, "select")
    /\ UNCHANGED <<miscVars, metricVars, metricsMutex, logEntries, logMutex,
                   chanVars, wg, table, logCall, local, spawned, panicked,
                   logHistory, histVars>>

\* ------------------------------------------------ startBot, main.go:180-198
\* a faulty tick: sendData is started without wg.Add(1)
BotTickNoAdd(i, cap) ==
    /\ Alive
    /\ pc[Bot(i)] = "select"
    /\ ticker[i] > 0
    /\ spawned < cap
    /\ ticker' = [ticker EXCEPT ![i] = 0]
    /\ lateTicks' = IF quitChan = "closed"
                    THEN [lateTicks EXCEPT ![i] = @ + 1]
                    ELSE lateTicks
    /\ IF mnistSamples = <<>>
       THEN /\ panicked' = "invalid argument to Intn"
            /\ UNCHANGED <<local, spawned, pc>>
       ELSE /\ \E index \in 1..Len(mnistSamples) :
                 local' = [local EXCEPT ![spawned + 1] =
                              [NoLocal EXCEPT !.data = mnistSamples[index]]]
            /\ spawned' = spawned + 1
            /\ pc' = Goto(Send(spawned + 1), "start")
            /\ UNCHANGED panicked
    /\ UNCHANGED <<loadVars, metricVars, metricsMutex, logEntries, logMutex,
                   chanVars, wg, table, logCall, logHistory, histVars>>

\* main.go:188-191, case <-ticker.C: rand.Intn(len(mnistSamples)) of
\* main.go:91 panics when the store is empty; otherwise wg.Add(1) and
\* go sendData(apiURL, data, wg)
BotTick(i, cap) ==
    /\ Alive
    /\ pc[Bot(i)] = "select"
    /\ ticker[i] > 0
    /\ spawned < cap
    /\ ticker' = [ticker EXCEPT ![i] = 0]
    /\ lateTicks' = IF quitChan = "closed"
                    THEN [lateTicks EXCEPT ![i] = @ + 1]
                    ELSE lateTicks
    /\ IF mnistSamples = <<>>
       THEN /\ panicked' = "invalid argument to Intn"
            /\ UNCHANGED <<local, wg, spawned, pc>>
       ELSE /\ \E index \in 1..Len(mnistSamples) :
                 local' = [local EXCEPT ![spawned + 1] =
                              [NoLocal EXCEPT !.data = mnistSamples[index]]]
            /\ wg' = wg + 1
            /\ spawned' = spawned + 1
            /\ pc' = Goto(Send(spawned + 1), "start")
            /\ UNCHANGED panicked
    /\ UNCHANGED <<loadVars, metricVars, metricsMutex, logEntries, logMutex,
                   chanVars, table, logCall, logHistory, histVars>>

\* a faulty quit branch: the bot also gives up once a dispatch has failed
BotQuitOnFailure(i) ==
    /\ Alive
    /\ pc[Bot(i)] = "select"
    /\ quitChan = "closed" \/ failedRequests > 0
    /\ CallLog(Bot(i), "Bot stopping gracefully...", "return")
    /\ UNCHANGED <<miscVars, metricVars, metricsMutex, logEntries, logMutex,
                   chanVars, wg, table, local, spawned, panicked, logHistory,
                   histVars>>

\* main.go:193-194, case <-quitChan
BotQuit(i) ==
    /\ Alive
    /\ pc[Bot(i)] = "select"
    /\ quitChan = "closed"
    /\ CallLog(Bot(i), "Bot stopping gracefully...", "return")
    /\ UNCHANGED <<miscVars, metricVars, metricsMutex, logEntries, logMutex,
                   chanVars, wg, table, local, spawned, panicked, logHistory,
                   histVars>>

\* main.go:195 with the deferred ticker.Stop() and wg.Done() (main.go:181, 184)
BotReturn(i) ==
    /\ Alive
    /\ pc[Bot(i)] = "return"
    /\ wg' = wg - 1
    /\ pc' = Goto(Bot(i), "done")
    /\ UNCHANGED <<miscVars, metricVars, metricsMutex, logEntries, logMutex,
                   chanVars, table, logCall, local, spawned, panicked,
                   logHistory, histVars>>

\* ------------------------------------------------- sendData, main.go:96-168
\* main.go:99-109, json.Marshal(requestBody) returns an error
SendMarshalError(d) ==
    /\ Alive
    /\ pc[Send(d)] = "start"
    /\ MarshalFails(local[d].data)
    /\ CallLog(Send(d), "Error marshaling JSON", "return")
    /\ outcome' = [outcome EXCEPT ![d] = "marshal"]
    /\ UNCHANGED <<miscVars, metricVars, metricsMutex, logEntries, logMutex,
                   chanVars, wg, table, local, spawned, panicked, logHistory,
                   committed, atLock, updates>>

\* main.go:99-114, http.Post returns an error
SendPostError(d) ==
    /\ Alive
    /\ pc[Send(d)] = "start"
    /\ ~MarshalFails(local[d].data)
    /\ CallLog(Send(d), "Error sending request", "errLock")
    /\ outcome' = [outcome EXCEPT ![d] = "transport"]
    /\ UNCHANGED <<miscVars, metricVars, metricsMutex, logEntries, logMutex,
                   chanVars, wg, table, local, spawned, panicked, logHistory,
                   committed, atLock, updates>>

\* a faulty transport-error path: the error is counted as a request only
RecordTransportErrorAsTotal ==
    /\ totalRequests' = totalRequests + 1
    /\ UNCHANGED <<failedRequests, successRequests, latencies, averageLatency>>

\* main.go:116, the counters a transport error changes
RecordTransportError ==
    /\ failedRequests' = failedRequests + 1
    /\ UNCHANGED <<totalRequests, successRequests, latencies, averageLatency>>

\* main.go:115-116 metricsMutex.Lock(); failedRequests++
SendErrLock(d) ==
    /\ Alive
    /\ pc[Send(d)] = "errLock"
    /\ metricsMutex = Free
    /\ metricsMutex' = Send(d)
    /\ atLock' = Metrics
    /\ RecordTransportError
    /\ pc' = Goto(Send(d), "errUnlock")
    /\ UNCHANGED <<miscVars, logEntries, logMutex, chanVars, wg, table, logCall,
                   local, spawned, panicked, logHistory, committed, updates, outcome>>

\* main.go:117-118 metricsMutex.Unlock(); return
SendErrUnlock(d) ==
    /\ Alive
    /\ pc[Send(d)] = "errUnlock"
    /\ metricsMutex' = Free
    /\ committed' = committed \cup {Metrics}
    /\ updates' = [updates EXCEPT ![d] = @ + 1]
    /\ pc' = Goto(Send(d), "return")
    /\ UNCHANGED <<miscVars, metricVars, logEntries, logMutex, chanVars, wg,
                   table, logCall, local, spawned, panicked, logHistory, atLock, outcome>>

\* main.go:99-122, http.Post returns a response; the latency is taken
SendPostResponse(d) ==
    /\ Alive
    /\ pc[Send(d)] = "start"
    /\ ~MarshalFails(local[d].data)
    /\ \E status \in Statuses, latency \in Latencies :
         /\ local' = [local EXCEPT ![d].status = status, ![d].latency = latency]
         /\ outcome' = [outcome EXCEPT ![d] = IF status = 200 THEN "200" ELSE "non200"]
    /\ pc' = Goto(Send(d), "lock")
    /\ UNCHANGED <<miscVars, metricVars, metricsMutex, logEntries, logMutex,
                   chanVars, wg, table, logCall, spawned, panicked, logHistory,
                   committed, atLock, updates>>

\* main.go:124-125 metricsMutex.Lock(); totalRequests++
SendLock(d) ==
    /\ Alive
    /\ pc[Send(d)] = "lock"
    /\ metricsMutex = Free
    /\ metricsMutex' = Send(d)
    /\ atLock' = Metrics
    /\ totalRequests' = totalRequests + 1
    /\ pc' = Goto(Send(d), "status")
    /\ UNCHANGED <<miscVars, successRequests, failedRequests, averageLatency,
                   latencies, logEntries, logMutex, chanVars, wg, table,
                   logCall, local, spawned, panicked, logHistory, committed,
                   updates, outcome>>

\* a faulty success branch: the latency is not recorded
RecordSuccessNoLatency(latency) ==
    /\ successRequests' = successRequests + 1
    /\ UNCHANGED <<totalRequests, failedRequests, latencies, averageLatency>>

\* main.go:127-129, the counters a 200 response changes
RecordSuccess(latency) ==
    /\ successRequests' = successRequests + 1
    /\ latencies' = Append(latencies, latency)
    /\ averageLatency' = calculateAverageLatency(latencies')
    /\ UNCHANGED <<totalRequests, failedRequests>>

\* a faulty status branch: a non-200 response is counted as a success
RecordStatusFailureAsSuccess ==
    /\ successRequests' = successRequests + 1
    /\ UNCHANGED <<totalRequests, failedRequests, latencies, averageLatency>>

\* main.go:131, the counters any other response changes
RecordStatusFailure ==
    /\ failedRequests' = failedRequests + 1
    /\ UNCHANGED <<totalRequests, successRequests, latencies, averageLatency>>

\* main.go:126-133
SendStatus(d) ==
    /\ Alive
    /\ pc[Send(d)] = "status"
    /\ IF local[d].status = 200
       THEN /\ RecordSuccess(local[d].latency)
            /\ pc' = Goto(Send(d), "unlock")
            /\ UNCHANGED logCall
       ELSE /\ RecordStatusFailure
            /\ CallLog(Send(d), "Request failed with status", "unlock")
    /\ UNCHANGED <<miscVars, metricsMutex, logEntries, logMutex, chanVars, wg,
                   table, local, spawned, panicked, logHistory, histVars>>

\* what main.go:137-167 logs: one of the four errors (reading the response,
\* creating the directory, opening the file, writing to it: each logs once
\* and returns) or the success message of main.go:167
PersistMessages ==
    {"Error saving response", "Request sent and response saved successfully"}

\* main.go:134-167 metricsMutex.Unlock(), then the response is read and saved
SendUnlock(d) ==
    /\ Alive
    /\ pc[Send(d)] = "unlock"
    /\ metricsMutex' = Free
    /\ committed' = committed \cup {Metrics}
    /\ updates' = [updates EXCEPT ![d] = @ + 1]
    /\ \E message \in PersistMessages : CallLog(Send(d), message, "return")
    /\ UNCHANGED <<miscVars, metricVars, logEntries, logMutex, chanVars, wg,
                   table, local, spawned, panicked, logHistory, atLock, outcome>>

\* a faulty sendData: it returns without wg.Done()
SendReturnNoDone(d) ==
    /\ Alive
    /\ pc[Send(d)] = "return"
    /\ local' = [local EXCEPT ![d] = NoLocal]
    /\ pc' = Goto(Send(d), "done")
    /\ UNCHANGED <<miscVars, metricVars, metricsMutex, logEntries, logMutex,
                   chanVars, wg, table, logCall, spawned, panicked, logHistory,
                   histVars>>

\* the return of sendData: the deferred wg.Done() of main.go:97
SendReturn(d) ==
    /\ Alive
    /\ pc[Send(d)] = "return"
    /\ wg' = wg - 1
    /\ local' = [local EXCEPT ![d] = NoLocal]
    /\ pc' = Goto(Send(d), "done")
    /\ UNCHANGED <<miscVars, metricVars, metricsMutex, logEntries, logMutex,
                   chanVars, table, logCall, spawned, panicked, logHistory,
                   histVars>>

\* ------------------------------------------------------------------- Next
\* logToWidget, whoever calls it
LogStep ==
    \/ \E p \in Procs : LogAppend(p)
    \/ \E p \in Procs : LogTrim(p)

\* main up to its select, the bots' ticks and the sendData goroutines
RunStep ==
    \/ MainStart
    \/ MainSpawnBot
    \/ MainReadTotal
    \/ MainReadSuccess
    \/ MainReadAverage
    \/ MainReadFailed
    \/ UIRefreshMetrics
    \/ UIRefreshLog
    \/ \E d \in 1..MaxDispatch : SendMarshalError(d)
    \/ \E d \in 1..MaxDispatch : SendPostError(d)
    \/ \E d \in 1..MaxDispatch : SendErrLock(d)
    \/ \E d \in 1..MaxDispatch : SendErrUnlock(d)
    \/ \E d \in 1..MaxDispatch : SendPostResponse(d)
    \/ \E d \in 1..MaxDispatch : SendLock(d)
    \/ \E d \in 1..MaxDispatch : SendStatus(d)
    \/ \E d \in 1..MaxDispatch : SendUnlock(d)
    \/ \E d \in 1..MaxDispatch : SendReturn(d)

\* the two stop requests and what follows them
StopStep ==
    \/ Signal
    \/ KeyPress
    \/ MainStopSignal
    \/ MainClose
    \/ MainQuitObserved
    \/ MainWait
    \/ MainExit
    \/ UIQuit
    \/ UIEvent
    \/ UIClose
    \/ \E i \in 1..NumBots : BotQuit(i)
    \/ \E i \in 1..NumBots : BotReturn(i)

\* the whole program
Next ==
    \/ LogStep
    \/ RunStep
    \/ StopStep
    \/ \E i \in 1..NumBots : Tick(i, MaxStopDispatch)
    \/ \E i \in 1..NumBots : BotTick(i, MaxStopDispatch)

Spec == Init /\ [][Next]_vars

\* the steps of each goroutine
MainStep ==
    \/ MainStart
    \/ MainSpawnBot
    \/ MainReadTotal
    \/ MainReadSuccess
    \/ MainReadAverage
    \/ MainReadFailed
    \/ MainStopSignal
    \/ MainClose
    \/ MainQuitObserved
    \/ MainWait
    \/ MainExit
UIStep == UIQuit \/ UIEvent \/ UIClose \/ UIRefreshMetrics \/ UIRefreshLog
BotStep(i) == BotTick(i, MaxStopDispatch) \/ BotQuit(i) \/ BotReturn(i)
SendStep(d) ==
    \/ SendMarshalError(d)
    \/ SendPostError(d)
    \/ SendErrLock(d)
    \/ SendErrUnlock(d)
    \/ SendPostResponse(d)
    \/ SendLock(d)
    \/ SendStatus(d)
    \/ SendUnlock(d)
    \/ SendReturn(d)

\* the Go scheduler lets every goroutine that stays runnable run, a
\* sync.Mutex that stays free is given to a goroutine waiting for it, and
\* every http.Post returns
Fairness ==
    /\ WF_vars(MainStep)
    /\ WF_vars(UIStep)
    /\ \A i \in 1..NumBots : WF_vars(BotStep(i))
    /\ \A d \in 1..MaxDispatch : WF_vars(SendStep(d))
    /\ \A p \in Procs : WF_vars(LogAppend(p) \/ LogTrim(p))

\* the whole program under that scheduling
FairSpec == Spec /\ Fairness

\* the program while no stop is requested
NextRun ==
    \/ LogStep
    \/ RunStep
    \/ \E i \in 1..NumBots : Tick(i, MaxDispatch)
    \/ \E i \in 1..NumBots : BotTick(i, MaxDispatch)

SpecRun == Init /\ [][NextRun]_vars

\* the program stopped by a signal, with no key pressed, while the endpoint
\* fails every request (a transport error or a non-200 status), so that a
\* run can hold MaxDispatch dispatches
NextOutage ==
    \/ LogStep
    \/ MainStart
    \/ MainSpawnBot
    \/ MainReadTotal
    \/ MainReadSuccess
    \/ MainReadAverage
    \/ MainReadFailed
    \/ UIRefreshMetrics
    \/ UIRefreshLog
    \/ \E d \in 1..MaxDispatch : SendMarshalError(d)
    \/ \E d \in 1..MaxDispatch : SendPostError(d)
    \/ \E d \in 1..MaxDispatch : SendErrLock(d)
    \/ \E d \in 1..MaxDispatch : SendErrUnlock(d)
    \/ \E d \in 1..MaxDispatch : SendPostResponse(d) /\ outcome'[d] = "non200"
    \/ \E d \in 1..MaxDispatch : SendLock(d)
    \/ \E d \in 1..MaxDispatch : SendStatus(d)
    \/ \E d \in 1..MaxDispatch : SendUnlock(d)
    \/ \E d \in 1..MaxDispatch : SendReturn(d)
    \/ Signal
    \/ MainStopSignal
    \/ MainClose
    \/ MainWait
    \/ MainExit
    \/ UIQuit
    \/ \E i \in 1..NumBots : BotQuit(i)
    \/ \E i \in 1..NumBots : BotReturn(i)
    \/ \E i \in 1..NumBots : Tick(i, MaxDispatch)
    \/ \E i \in 1..NumBots : BotTick(i, MaxDispatch)

SpecOutage == Init /\ [][NextOutage]_vars

\* the load of a data file and the start of the bots, up to their first
\* ticks (main.go:244-263, 180-191)
InitLoad ==
    \E file \in Files :
        StartWith(file, <<>>, [p \in Procs |-> IF p = Main THEN "load" ELSE "unborn"])

NextLoad ==
    \/ LoadJSON
    \/ LoadCSVRecord
    \/ LoadCSVEnd
    \/ MainStart
    \/ LogStep
    \/ MainSpawnBot
    \/ \E i \in 1..NumBots : Tick(i, MaxStopDispatch)
    \/ \E i \in 1..NumBots : BotTick(i, MaxStopDispatch)

SpecLoad == InitLoad /\ [][NextLoad]_vars

\* ------------------------------------------------- logToWidget on its own
\* the goroutines of SpecLog that call logToWidget, and what each one logs
LogCallers == {Bot(1), Send(1)}
CallerMessage(p) ==
    IF p \in Bots THEN "Bot stopping gracefully..." ELSE "Error sending request"

\* the calls begun so far: the appends made and the calls waiting to append
CallsBegun == Len(logHistory) + Cardinality({p \in Procs : pc[p] = "logToWidget"})

\* a goroutine calls logToWidget (main.go:107-318), whatever else it does
LogCaller(p) ==
    /\ pc[p] = "caller"
    /\ CallsBegun < MaxAppends
    /\ CallLog(p, CallerMessage(p), "caller")
    /\ UNCHANGED <<miscVars, metricVars, metricsMutex, logEntries, logMutex,
                   chanVars, wg, table, local, spawned, panicked, logHistory,
                   histVars>>

InitLog == StartAt([p \in Procs |-> IF p \in LogCallers THEN "caller" ELSE "unborn"])

NextLog ==
    \/ LogStep
    \/ \E p \in LogCallers : LogCaller(p)

SpecLog == InitLog /\ [][NextLog]_vars

\* ------------------------------------------------------------- the claims
InFlight(d) == pc[Send(d)] \notin {"unborn", "done"}
Returned(d) == pc[Send(d)] = "done"
NoSendHoldsMetrics == metricsMutex \notin Sends
AppendsBy(p) == Cardinality({k \in 1..Len(logHistory) : logHistory[k].by = p})
AppendsOf(message) ==
    Cardinality({k \in 1..Len(logHistory) : logHistory[k].msg = message})

\* C1: whenever no dispatch holds metricsMutex, totalRequests is
\* successRequests + failedRequests, and once every dispatch made has returned
\* (each with an HTTP 200, a non-200 status or a transport error) totalRequests
\* is the number of dispatches made.
C1_TotalIsSuccessPlusFailed ==
    NoSendHoldsMetrics =>
        /\ totalRequests = successRequests + failedRequests
        /\ (/\ \A d \in 1..MaxDispatch : ~InFlight(d)
            /\ \A d \in 1..MaxDispatch : outcome[d] # "marshal")
           => totalRequests = spawned

\* C2: quitChan is closed at most once: no second close panics.
C2_QuitChanClosedOnce == panicked # "close of closed channel"

\* main has returned from wg.Wait()
MainPastWait == pc[Main] \in {"final", "exit"} \/ logCall[Main].ret = "final"

\* C3, as claimed: the shutdown wait covers only the bots' tick loops, so that
\* once every bot has returned wg.Wait() lets main pass, whatever dispatch is
\* still running.
C3_WaitCoversOnlyTickLoops ==
    (pc[Main] = "wait" /\ \A i \in 1..NumBots : pc[Bot(i)] = "done") => wg = 0

\* C3, amended: the shutdown wait covers the tick loops and every dispatch:
\* when main has passed wg.Wait() every bot has returned and no sendData is
\* running, and no dispatch appends to the log after "All bots stopped.".
C3_WaitCoversDispatches ==
    /\ MainPastWait =>
          /\ \A i \in 1..NumBots : pc[Bot(i)] = "done"
          /\ \A d \in 1..MaxDispatch : ~InFlight(d)
    /\ \A j, k \in 1..Len(logHistory) :
          (j < k /\ logHistory[j].msg = "All bots stopped.")
             => logHistory[k].by \notin (Sends \cup Bots)

\* a dispatch outlived its bot's tick loop, and main then passed wg.Wait()
C3_Witness ==
    /\ MainPastWait
    /\ \E j, k \in 1..Len(logHistory) :
          /\ j < k
          /\ logHistory[j].msg = "Bot stopping gracefully..."
          /\ logHistory[k].by \in Sends

\* C4: a sendData that has returned has made exactly one update of the
\* metrics and exactly one append to the log.
C4_OneUpdateOneAppend ==
    \A d \in 1..MaxDispatch :
        Returned(d) => updates[d] = 1 /\ AppendsBy(Send(d)) = 1

\* C5: outside logToWidget's critical section logEntries holds at most 10
\* entries, and after more than 10 appends it holds the 10 appended last, the
\* oldest first.
C5_LogKeepsLastTen ==
    logMutex = Free =>
        /\ Len(logEntries) <= MaxLogEntries
        /\ Len(logHistory) > MaxLogEntries =>
              logEntries = [k \in 1..MaxLogEntries |->
                              logHistory[Len(logHistory) - MaxLogEntries + k].msg]

\* more than 10 messages were appended, by both callers
C5_Witness ==
    /\ logMutex = Free
    /\ Len(logHistory) = MaxLogEntries + 2
    /\ \A p \in LogCallers : AppendsBy(p) > 0

\* the table has been rendered (main.go:267 has returned)
TableRendered == pc[UI] # "unborn"
RowsOf(m) == Rows(m.total, m.success, m.avg, m.failed)

\* C6: the rows the table shows are the metrics of one moment at which no
\* dispatch was inside its update.
C6_TableIsSnapshot == TableRendered => table \in {RowsOf(m) : m \in committed}

\* C7: whenever no dispatch holds metricsMutex, averageLatency is the mean of
\* latencies, and 0 while latencies is empty.
C7_AverageIsMean ==
    NoSendHoldsMetrics =>
        IF latencies = <<>>
        THEN averageLatency = Zero
        ELSE averageLatency.num * Len(latencies)
                = SumSeq(latencies) * averageLatency.den

\* two different latencies have been recorded, and a success has returned
C7_Witness ==
    /\ NoSendHoldsMetrics
    /\ Len(latencies) = 2
    /\ latencies[1] # latencies[2]
    /\ \E d \in 1..MaxDispatch : outcome[d] = "200" /\ Returned(d)

\* C8: while every response so far was a non-200 one, successRequests is 0,
\* failedRequests is totalRequests (no dispatch being inside its update),
\* latencies is empty and averageLatency is 0.
C8_AllNon200 ==
    (\A d \in 1..MaxDispatch : outcome[d] \in {"none", "non200"}) =>
        /\ successRequests = 0
        /\ latencies = <<>>
        /\ averageLatency = Zero
        /\ NoSendHoldsMetrics => failedRequests = totalRequests
        /\ (\A d \in 1..MaxDispatch : ~InFlight(d)) => totalRequests = spawned

\* every dispatch got a non-200 response and has returned
C8_Witness ==
    /\ \A d \in 1..MaxDispatch : outcome[d] = "non200" /\ Returned(d)
    /\ failedRequests = MaxDispatch

\* the dispatches whose transport error has been counted
Counted == {d \in 1..MaxDispatch :
               outcome[d] = "transport"
               /\ pc[Send(d)] \in {"errUnlock", "return", "done"}}

\* C9: while every http.Post so far returned a transport error, each dispatch
\* appends one "Error sending request" entry and adds one to failedRequests,
\* so that n returned dispatches leave failedRequests = n; no bot and no
\* process ends because of them.
C9_AllTransportErrors ==
    (\A d \in 1..MaxDispatch : outcome[d] \in {"none", "transport"}) =>
        /\ failedRequests = Cardinality(Counted)
        /\ \A d \in 1..MaxDispatch :
              Returned(d) => /\ AppendsBy(Send(d)) = 1
                             /\ \E k \in 1..Len(logHistory) :
                                   logHistory[k] = [by |-> Send(d),
                                                    msg |-> "Error sending request"]
        /\ (\A d \in 1..MaxDispatch : ~InFlight(d)) => failedRequests = spawned
        /\ panicked = "none"
        /\ \A i \in 1..NumBots : pc[Bot(i)] \in {"unborn", "select"}

\* every dispatch met a transport error and has returned
C9_Witness ==
    /\ \A d \in 1..MaxDispatch : outcome[d] = "transport" /\ Returned(d)
    /\ failedRequests = MaxDispatch
    /\ AppendsOf("Error sending request") = MaxDispatch

\* sendData d has recorded a failure and still holds metricsMutex
FailureRecorded(d) ==
    /\ metricsMutex = Send(d)
    /\ \/ pc[Send(d)] = "errUnlock"
       \/ outcome[d] = "non200"
          /\ (pc[Send(d)] = "unlock" \/ logCall[Send(d)].ret = "unlock")

\* C10: recording a failed dispatch (a transport error or a non-200 status)
\* adds one to totalRequests and one to failedRequests and leaves
\* successRequests, latencies and averageLatency as they were.
C10_FailureFrame ==
    \A d \in 1..MaxDispatch :
        FailureRecorded(d) =>
            /\ totalRequests = atLock.total + 1
            /\ failedRequests = atLock.failed + 1
            /\ successRequests = atLock.success
            /\ latencies = atLock.lats
            /\ averageLatency = atLock.avg

\* a bot has left its tick loop by the quit branch of main.go:193
BotLeft(i) == pc[Bot(i)] \in {"return", "done"} \/ logCall[Bot(i)].ret = "return"

\* C11: once quitChan is closed each bot handles at most one further tick
\* (spawning at most one further dispatch), then takes the quit branch,
\* appends "Bot stopping gracefully..." once and calls wg.Done once. Nothing
\* bounds the time a runnable goroutine waits for the processor, so a tick
\* interval can pass between any two steps of a bot.
C11_ExitWithinOneTick ==
    \A i \in 1..NumBots :
        /\ lateTicks[i] <= 1
        /\ AppendsBy(Bot(i)) <= 1
        /\ pc[Bot(i)] \in {"return", "done"} =>
              /\ AppendsBy(Bot(i)) = 1
              /\ \E k \in 1..Len(logHistory) :
                    logHistory[k] = [by |-> Bot(i), msg |-> "Bot stopping gracefully..."]

\* C12: a load that fails on malformed input leaves mnistSamples as it was
\* before the call (empty, in main): no sample read before the error remains
\* in the store.
C12_FailedLoadKeepsStore == loadErr # "none" => mnistSamples = <<>>

\* goroutine p is inside logToWidget, waiting for logMutex or holding it
InLogToWidget(p) == pc[p] \in {"logToWidget", "logTrim"}

\* C13: the two locks are independent: no goroutine holds metricsMutex and
\* logMutex at the same time, and none asks for one while holding the other.
C13_LocksIndependent ==
    \A p \in Procs :
        /\ ~(metricsMutex = p /\ logMutex = p)
        /\ ~(metricsMutex = p /\ InLogToWidget(p))

\* C14: after cancellation is triggered (by the signal or by the 'q' key)
\* main passes wg.Wait and appends "All bots stopped.", and that entry comes
\* after every bot's "Bot stopping gracefully..." entry. In its finite form:
\* a process that has ended after a cancellation has made the entry, and no
\* bot's entry follows it.
C14_ShutdownCompletes ==
    /\ (quitChan = "closed" /\ ~Alive) => AppendsOf("All bots stopped.") = 1
    /\ \A k \in 1..Len(logHistory) :
          logHistory[k].msg = "All bots stopped." =>
             \A i \in 1..NumBots :
                \E j \in 1..(k - 1) :
                   logHistory[j] = [by |-> Bot(i), msg |-> "Bot stopping gracefully..."]

\* a dispatch has failed: its request met a transport error or a non-200
\* status, or its response could not be saved
Failed(d) ==
    \/ outcome[d] \in {"transport", "non200"}
    \/ [by |-> Send(d), msg |-> "Error saving response"] \in
          {logHistory[k] : k \in 1..Len(logHistory)}

\* C15: whatever the dispatches' outcomes, a bot leaves its tick loop only by
\* the quit branch (quitChan closed, then "Bot stopping gracefully..."); until
\* then every tick it handles starts one sendData and leaves the bot in
\* its loop, and a buffered tick can be handled whatever dispatches are still
\* running.
C15_BotLeavesOnlyByQuit ==
    [][\A i \in 1..NumBots :
          /\ (pc[Bot(i)] = "select" /\ pc'[Bot(i)] # "select") =>
                /\ quitChan = "closed"
                /\ logCall'[Bot(i)] =
                      [msg |-> "Bot stopping gracefully...", ret |-> "return"]
          /\ (pc[Bot(i)] = "select" /\ ticker'[i] < ticker[i]) =>
                /\ spawned' = spawned + 1
                /\ pc'[Send(spawned')] = "start"
                /\ pc'[Bot(i)] = "select"
          /\ (Alive /\ pc[Bot(i)] = "select" /\ ticker[i] > 0
                    /\ spawned < MaxDispatch) =>
                ENABLED BotTick(i, MaxDispatch)]_vars

\* every dispatch has failed (one by a transport error, one by a non-200
\* status) and is still running, and the bot, which handled all their ticks,
\* has left its loop by the quit branch
C15_Witness ==
    /\ \E i \in 1..NumBots : BotLeft(i)
    /\ \A d \in 1..MaxDispatch : Failed(d) /\ InFlight(d)
    /\ \E d \in 1..MaxDispatch : outcome[d] = "transport"
    /\ \E d \in 1..MaxDispatch : outcome[d] = "non200"

\* loadMNISTData has returned nil and main has gone on
Loaded == loadErr = "none" /\ pc[Main] # "load"

\* C16: a load that succeeds leaves mnistSamples non-empty, so that no tick
\* draws its random index from an empty range (rand.Intn(0) panics).
C16_StoreNonEmpty ==
    /\ Loaded => mnistSamples # <<>>
    /\ panicked # "invalid argument to Intn"

\* C17: the two mutexes never deadlock: a goroutine takes metricsMutex only
\* while it holds no lock, so that whenever one holds both it took
\* metricsMutex first; the holder of logMutex waits for nothing; and while
\* the process runs every lock taken is released again.
C17_NoLockDeadlock ==
    /\ [][\A p \in Procs :
            (metricsMutex # p /\ metricsMutex' = p) =>
                (logMutex # p /\ logMutex' # p)]_vars
    /\ [](\A p \in Procs : logMutex = p => pc[p] = "logTrim")
    /\ (metricsMutex # Free) ~> (metricsMutex = Free \/ ~Alive)
    /\ (logMutex # Free) ~> (logMutex = Free \/ ~Alive)

\* a dispatch holds metricsMutex and logMutex while another goroutine waits
\* for logMutex
C17_Witness ==
    \E d \in 1..MaxDispatch :
        /\ metricsMutex = Send(d)
        /\ logMutex = Send(d)
        /\ \E p \in Procs \ {Send(d)} : pc[p] = "logToWidget"

\* the goroutines that have been added to the WaitGroup and have not called
\* wg.Done: the bots in their loops and the sendData goroutines running
Running ==
    {b \in Bots : pc[b] \notin {"unborn", "done"}}
       \cup {Send(d) : d \in {e \in 1..MaxDispatch : InFlight(e)}}

\* C18: the WaitGroup counter is never negative (it counts the bots and the
\* dispatches still running); a dispatch is added by a bot that is still in
\* its loop, so with the counter at 1 or more; the counter leaves zero only
\* while main starts the bots; and main passes wg.Wait only when every bot
\* and every dispatch has returned.
C18_WaitGroupSafe ==
    /\ [](wg >= 0 /\ wg = Cardinality(Running))
    /\ [][spawned' > spawned =>
            /\ wg >= 1
            /\ wg' = wg + 1
            /\ \E i \in 1..NumBots :
                  pc[Bot(i)] = "select" /\ ticker'[i] < ticker[i]]_vars
    /\ [][(wg = 0 /\ wg' > 0) => (pc[Main] = "spawn" /\ spawned = 0)]_vars
    /\ [][(pc[Main] = "wait" /\ pc'[Main] # "wait") => Running = {}]_vars

\* a bot added a dispatch after quitChan was closed, and main has passed
\* wg.Wait
C18_Witness ==
    /\ MainPastWait
    /\ spawned = MaxStopDispatch
    /\ \E i \in 1..NumBots : lateTicks[i] > 0

\* C19: whenever no dispatch holds metricsMutex, latencies holds
\* successRequests entries: a step adds one to successRequests exactly when
\* it appends one latency, and the latencies recorded before stay in place.
C19_LatencyPerSuccess ==
    /\ [](NoSendHoldsMetrics => Len(latencies) = successRequests)
    /\ [][/\ (successRequests' # successRequests) <=> (latencies' # latencies)
          /\ latencies' # latencies =>
                /\ successRequests' = successRequests + 1
                /\ Len(latencies') = Len(latencies) + 1
                /\ SubSeq(latencies', 1, Len(latencies)) = latencies]_vars

\* one dispatch has succeeded and another has failed, and both have returned
C19_Witness ==
    /\ NoSendHoldsMetrics
    /\ \A d \in 1..MaxDispatch : Returned(d)
    /\ successRequests = 1
    /\ Len(latencies) = 1
    /\ failedRequests = MaxDispatch - 1

====
